---- MODULE Spec2Model ----
(***************************************************************************)
(* Model of build.rs of rust-lua53: the build script that downloads Lua    *)
(* 5.3.0 into OUT_DIR, builds it for the host, generates glue.rs, rebuilds *)
(* it for TARGET, and prints the cargo link directives.                    *)
(*                                                                         *)
(* Strings that the code takes apart or puts together are sequences of     *)
(* tokens: TARGET is a sequence of dash-free words and "-" tokens, an      *)
(* invocation text is argv joined by " " tokens.  OUT_DIR is the symbolic  *)
(* path "OUT_DIR".                                                         *)
(*                                                                         *)
(* The external tools are modelled by their effect on the files the code   *)
(* looks at.  `make clean` of Lua 5.3.0 removes src/liblua.a, a successful *)
(* `make <platform>` writes it, a command that exits non-zero may or may   *)
(* not leave its (partial) output behind, a command that could not be      *)
(* started changes nothing.                                                *)
(***************************************************************************)
EXTENDS Naturals, Integers, Sequences, FiniteSets, TLC

VARIABLES
    hostOS,   \* cfg!(target_os) the script was compiled for
    env,      \* environment of the current run: OUT_DIR, TARGET, CC
    disk,     \* files under OUT_DIR
    pc,       \* position of the current run inside main/prebuild
    cmds,     \* external commands the current run has spawned, with status
    out,      \* lines the current run has printed to stdout
    result,   \* how the current run ended
    start,    \* the files under OUT_DIR when the current run began
    prev      \* summary of the previous run on this output directory

vars == <<hostOS, env, disk, pc, cmds, out, result, start, prev>>

----------------------------------------------------------------------------
(* Environment values *)

HostOSes == {"windows", "macos", "linux", "freebsd", "dragonfly", "netbsd"}

Unset == [set |-> FALSE, val |-> <<>>]
Val(v) == [set |-> TRUE, val |-> v]

T_linux_gnu  == <<"x86_64", "-", "unknown", "-", "linux", "-", "gnu">>
T_windows    == <<"x86_64", "-", "pc", "-", "windows", "-", "gnu">>
T_darwin     == <<"x86_64", "-", "apple", "-", "darwin">>
T_freebsd    == <<"x86_64", "-", "unknown", "-", "freebsd">>
T_dragonfly  == <<"x86_64", "-", "unknown", "-", "dragonfly">>
T_redox      == <<"aarch64", "-", "unknown", "-", "redox">>
T_android    == <<"arm", "-", "linux", "-", "androideabi">>
T_two        == <<"x86_64", "-", "linux">>
T_emptyseg   == <<"x86_64", "-", "-", "linux">>
T_glued      == <<"x86_64", "-", "unknown", "-", "linux", "gnu">>
T_empty      == <<>>

TargetStrings ==
    {T_linux_gnu, T_windows, T_darwin, T_freebsd, T_dragonfly, T_redox,
     T_android, T_two, T_emptyseg, T_glued, T_empty}

CC_mingw == <<"x86_64-w64-mingw32-gcc">>
CC_clang == <<"clang">>

\* The environments a run is started in.
Envs ==
    { [OUT_DIR |-> TRUE, TARGET |-> Val(t), CC |-> Unset] : t \in TargetStrings }
    \cup { [OUT_DIR |-> TRUE, TARGET |-> Unset, CC |-> Unset] }
    \cup { [OUT_DIR |-> TRUE, TARGET |-> Val(T_windows), CC |-> Val(CC_mingw)],
           [OUT_DIR |-> TRUE, TARGET |-> Val(T_darwin), CC |-> Val(CC_clang)],
           [OUT_DIR |-> TRUE, TARGET |-> Val(T_linux_gnu), CC |-> Val(CC_clang)] }
    \cup { [OUT_DIR |-> FALSE, TARGET |-> Val(T_linux_gnu), CC |-> Unset] }

----------------------------------------------------------------------------
(* str::split('-'): the segments between the "-" tokens, in order. *)

RECURSIVE Split(_, _)
Split(s, cur) ==
    IF s = <<>> THEN <<cur>>
    ELSE IF Head(s) = "-" THEN <<cur>> \o Split(Tail(s), <<>>)
    ELSE Split(Tail(s), Append(cur, Head(s)))

\* Iterator::nth(n), n counted from 0.
Nth(seq, n) == IF n + 1 <= Len(seq) THEN Val(seq[n + 1]) ELSE Unset

\* [..].join(" ") over strings that are token sequences.
RECURSIVE Join(_)
Join(args) ==
    IF args = <<>> THEN <<>>
    ELSE IF Len(args) = 1 THEN args[1]
    ELSE args[1] \o <<" ">> \o Join(Tail(args))

\* A string literal.
S(word) == <<word>>

\* The value of OUT_DIR and the paths format!() builds from it.
OutDir == S("OUT_DIR")
BuildDirPath == OutDir
LuaDirPath == OutDir \o S("/lua-5.3.0")
LibMarkerPath == OutDir \o S("/lua-5.3.0/src/liblua.a")
ArchiveMarkerPath == OutDir \o S("/lua-5.3.0.tar.gz")
GlueMarkerPath == OutDir \o S("/glue.rs")
GlueBinPath == OutDir \o S("/glue")
IncludePath == OutDir \o S("/lua-5.3.0/src")
NoCwd == <<>>
LuaUrl == S("http://www.lua.org/ftp/lua-5.3.0.tar.gz")

----------------------------------------------------------------------------
(* build_lua_native *)

NoPlatform == "none"

\* Variant: dragonfly built as freebsd, unknown hosts as linux.
NativePlatformLax(host) ==
    CASE host = "windows"   -> "mingw"
      [] host = "macos"     -> "macosx"
      [] host = "freebsd"   -> "freebsd"
      [] host = "dragonfly" -> "freebsd"
      [] OTHER              -> "linux"
\* The if/else chain over cfg!(target_os); NoPlatform is the panic! branch.
NativePlatform(host) ==
    CASE host = "windows"   -> "mingw"
      [] host = "macos"     -> "macosx"
      [] host = "linux"     -> "linux"
      [] host = "freebsd"   -> "freebsd"
      [] host = "dragonfly" -> "bsd"
      [] OTHER              -> NoPlatform

\* cfg!(any(target_os = "linux", target_os = "freebsd", target_os = "bsd"))
NativePic(host) == host \in {"linux", "freebsd", "bsd"}

\* Variant: the native build forwards CC like the target build.
NativeMakeArgsCc(host, platform) ==
    <<S("make"), S(platform),
      S("CC=") \o (IF env.CC.set THEN env.CC.val ELSE S("gcc"))>>
\* Variant: the flag of line 24 left out.
NativeMakeArgsPlain(host, platform) == <<S("make"), S(platform)>>
NativeMakeArgs(host, platform) ==
    IF NativePic(host)
    THEN <<S("make"), S(platform), S("MYCFLAGS=-fPIC")>>
    ELSE <<S("make"), S(platform)>>

----------------------------------------------------------------------------
(* build_lua_target *)

\* Variant: CC is not read.
CcNameDefault(e) == S("gcc")
\* env::var("CC").unwrap_or("gcc")
CcName(e) == IF e.CC.set THEN e.CC.val ELSE S("gcc")

\* Variant: nth(1) for nth(2).
TargetOsSecond(e) ==
    IF e.TARGET.set THEN Nth(Split(e.TARGET.val, <<>>), 1) ELSE Unset
\* env::var("TARGET").ok().and_then(|var| var.split('-').nth(2))
TargetOs(e) ==
    IF e.TARGET.set THEN Nth(Split(e.TARGET.val, <<>>), 2) ELSE Unset

\* Variant: every OS segment builds for linux.
TargetPlatformLinux(os) == "linux"
\* The match over the OS segment; NoPlatform is the panic! arm.
TargetPlatform(os) ==
    CASE os = S("windows")   -> "mingw"
      [] os = S("darwin")    -> "macosx"
      [] os = S("linux")     -> "linux"
      [] os = S("freebsd")   -> "freebsd"
      [] os = S("dragonfly") -> "bsd"
      [] OTHER               -> NoPlatform

TargetMakeArgs(platform, cc) ==
    IF platform = "linux" \/ platform = "freebsd" \/ platform = "bsd"
    THEN <<S("make"), S(platform), S("MYCFLAGS=-fPIC")>>
    ELSE <<S("make"), S(platform), S("CC=") \o cc>>

----------------------------------------------------------------------------
(* fetch_in_dir: one of three definitions, selected by #[cfg]. *)

FetchArgs(host, url) ==
    IF host \in {"freebsd", "dragonfly"} THEN <<S("fetch"), url>>
    ELSE IF host = "macos" THEN <<S("curl"), S("-O"), url>>
    ELSE <<S("wget"), url>>

----------------------------------------------------------------------------
(* run_command *)

ExitCodes == {0, 1, 2}
NotStarted == [spawned |-> FALSE, code |-> 0 - 1]
Exited(c) == [spawned |-> TRUE, code |-> c]
Statuses == {Exited(c) : c \in ExitCodes} \cup {NotStarted}

Ok == [ok |-> TRUE, kind |-> "none", msg |-> <<>>]
Err(kind, msg) == [ok |-> FALSE, kind |-> kind, msg |-> msg]

\* try!(command.status()), then the test of status.success().
RunCommand(all_args, st) ==
    IF ~st.spawned THEN Err("Spawn", <<>>)
    ELSE IF st.code # 0
         THEN Err("Other", S("The command\n\t") \o Join(all_args)
                           \o S("\ndid not run successfully."))
         ELSE Ok

----------------------------------------------------------------------------
(* The output directory *)

NoLib == [by |-> "none", plat |-> NoPlatform, age |-> "none"]
Lib(by, plat, age) == [by |-> by, plat |-> plat, age |-> age]

EmptyDisk ==
    [outdir |-> FALSE, archive |-> FALSE, tree |-> FALSE, lib |-> NoLib,
     glueBin |-> FALSE, glueRs |-> FALSE]

Platforms == {"mingw", "macosx", "linux", "freebsd", "bsd"}

\* liblua.a left behind by earlier runs of a script compiled for host.
OldLibs(host) ==
    {NoLib}
    \cup {Lib("native", NativePlatform(host), "earlier") :
            x \in {h \in {host} : NativePlatform(h) # NoPlatform}}
    \cup {Lib("target", p, "earlier") : p \in Platforms}

\* The states of OUT_DIR a run may find: files exist only inside existing
\* directories, and liblua.a lies inside the extracted tree.
Disks(host) ==
    {EmptyDisk}
    \cup {[outdir |-> TRUE, archive |-> a, tree |-> FALSE, lib |-> NoLib,
           glueBin |-> b, glueRs |-> g] :
            a \in BOOLEAN, b \in BOOLEAN, g \in BOOLEAN}
    \cup {[outdir |-> TRUE, archive |-> a, tree |-> TRUE, lib |-> l,
           glueBin |-> b, glueRs |-> g] :
            a \in BOOLEAN, b \in BOOLEAN, g \in BOOLEAN, l \in OldLibs(host)}

\* fs::metadata(path).is_ok() for the three paths the script tests.
\* Variant: the test of line 100 never finds liblua.a.
NativeLibCachedNever(d) == FALSE
NativeLibCached(d) == d.lib.by # "none"
\* Variant: the test of line 104 made on OUT_DIR itself, before line 101.
ArchiveCachedDir(d) == d.archive \/ start.outdir
\* Variant: the test of line 104 never finds the archive.
ArchiveCachedNever(d) == FALSE
ArchiveCached(d) == d.archive
\* Variant: the test of line 115 never finds glue.rs.
GlueCachedNever(d) == FALSE
GlueCached(d) == d.glueRs

\* Whether the working directory of a command exists.
CwdExists(d, cwd) ==
    CASE cwd = NoCwd        -> TRUE
      [] cwd = BuildDirPath -> d.outdir
      [] cwd = LuaDirPath   -> d.tree
      [] OTHER              -> FALSE

(* Effects of the external tools: the set of directory states a command    *)
(* that ended with status st may leave.                                    *)
Succeeded(st) == st.spawned /\ st.code = 0

FetchEffect(d, st) ==
    IF ~st.spawned THEN {d}
    ELSE IF st.code = 0 THEN {[d EXCEPT !.archive = TRUE]}
    ELSE {d, [d EXCEPT !.archive = TRUE]}

ExtractEffect(d, st) ==
    IF ~st.spawned THEN {d}
    ELSE IF st.code = 0 THEN {[d EXCEPT !.tree = TRUE]}
    ELSE {d, [d EXCEPT !.tree = TRUE]}

MakeCleanEffect(d, st) ==
    IF ~st.spawned THEN {d}
    ELSE IF st.code = 0 THEN {[d EXCEPT !.lib = NoLib]}
    ELSE {d, [d EXCEPT !.lib = NoLib]}

MakeEffect(d, st, by, plat) ==
    IF ~st.spawned THEN {d}
    ELSE IF st.code = 0 THEN {[d EXCEPT !.lib = Lib(by, plat, "this")]}
    ELSE {d, [d EXCEPT !.lib = Lib(by, plat, "this")]}

GccEffect(d, st) ==
    IF Succeeded(st) THEN {[d EXCEPT !.glueBin = TRUE]} ELSE {d}

GlueEffect(d, st) ==
    IF ~st.spawned THEN {d}
    ELSE IF st.code = 0 THEN {[d EXCEPT !.glueRs = TRUE]}
    ELSE {d, [d EXCEPT !.glueRs = TRUE]}

\* The statuses a command can end with: none is started in a missing
\* directory, tar cannot unpack a missing archive, a missing program
\* cannot be started.
PossibleStatuses(d, stage, cwd) ==
    {st \in Statuses :
        /\ st.spawned => CwdExists(d, cwd)
        /\ (stage = "extract" /\ Succeeded(st)) => d.archive
        /\ (stage = "run_glue" /\ st.spawned) => d.glueBin}

----------------------------------------------------------------------------
(* One run of main *)

Running == [exit |-> "none", kind |-> "none", msg |-> <<>>]
NoPrev == [exit |-> "none", okStages |-> {}, failedStage |-> "none"]

Command(stage, argv, cwd, st) ==
    [stage |-> stage, argv |-> argv, cwd |-> cwd, st |-> st]

\* try!(e): go on with next when e is Ok, return the Err to main otherwise.
\* Variant: a failed step starts the script over.
TryRestart(r, next) == IF r.ok THEN next ELSE "start"
\* Variant: the Err is dropped.
TryIgnore(r, next) == next
Try(r, next) == IF r.ok THEN next ELSE "main"

\* The value prebuild has returned so far: the Err of a failed try!.
Returned(r) ==
    IF r.ok THEN Running ELSE [exit |-> "none", kind |-> r.kind, msg |-> r.msg]

Panic(kind, msg) == [exit |-> "panic", kind |-> kind, msg |-> msg]

Init ==
    /\ hostOS \in HostOSes
    /\ env \in Envs
    /\ disk \in Disks(hostOS)
    /\ pc = "start"
    /\ cmds = <<>>
    /\ out = <<>>
    /\ result = Running
    /\ start = disk
    /\ prev = NoPrev

\* Lines 95-100: OUT_DIR is unwrapped, then the liblua.a marker is tested.
CheckNativeLib ==
    /\ pc = "start"
    /\ IF ~env.OUT_DIR
       THEN /\ pc' = "exited"
            /\ result' = Panic("MissingEnvironment", S("OUT_DIR"))
       ELSE /\ pc' = IF NativeLibCached(disk) THEN "check_glue" ELSE "mkdir"
            /\ UNCHANGED result
    /\ UNCHANGED <<hostOS, env, disk, cmds, out, start, prev>>

\* Lines 101-104: create_dir_all, then the test of the downloaded archive.
CreateDir ==
    /\ pc = "mkdir"
    /\ \E created \in (IF disk.outdir THEN {TRUE} ELSE BOOLEAN) :
        LET r == IF created THEN Ok ELSE Err("CreateDir", BuildDirPath) IN
        /\ disk' = IF created THEN [disk EXCEPT !.outdir = TRUE] ELSE disk
        /\ pc' = Try(r, IF ArchiveCached(disk') THEN "native_clean" ELSE "fetch")
        /\ result' = Returned(r)
    /\ UNCHANGED <<hostOS, env, cmds, out, start, prev>>

\* A step that spawns one command through run_command under try!.
Spawn(stage, argv, cwd, next, st, d2) ==
    LET r == RunCommand(argv, st) IN
    /\ cmds' = Append(cmds, Command(stage, argv, cwd, st))
    /\ disk' = d2
    /\ pc' = Try(r, next)
    /\ result' = Returned(r)

\* Lines 105-106.
Fetch ==
    /\ pc = "fetch"
    /\ out' = Append(out, S("\"") \o OutDir \o S("\""))
    /\ \E st \in PossibleStatuses(disk, "fetch", BuildDirPath) :
       \E d2 \in FetchEffect(disk, st) :
        Spawn("fetch", FetchArgs(hostOS, LuaUrl), BuildDirPath, "extract", st, d2)
    /\ UNCHANGED <<hostOS, env, start, prev>>

\* Line 107.
Extract ==
    /\ pc = "extract"
    /\ \E st \in PossibleStatuses(disk, "extract", BuildDirPath) :
       \E d2 \in ExtractEffect(disk, st) :
        Spawn("extract", <<S("tar"), S("xzf"), S("lua-5.3.0.tar.gz")>>,
              BuildDirPath, "native_clean", st, d2)
    /\ UNCHANGED <<hostOS, env, out, start, prev>>

\* Line 110.
NativeClean ==
    /\ pc = "native_clean"
    /\ \E st \in PossibleStatuses(disk, "native_clean", LuaDirPath) :
       \E d2 \in MakeCleanEffect(disk, st) :
        Spawn("native_clean", <<S("make"), S("clean")>>, LuaDirPath,
              "native_build", st, d2)
    /\ UNCHANGED <<hostOS, env, out, start, prev>>

\* Line 111 and build_lua_native.
BuildLuaNative ==
    /\ pc = "native_build"
    /\ LET platform == NativePlatform(hostOS) IN
       IF platform = NoPlatform
       THEN /\ pc' = "exited"
            /\ result' = Panic("UnsupportedPlatform", S("Unsupported target OS"))
            /\ UNCHANGED <<disk, cmds>>
       ELSE \E st \in PossibleStatuses(disk, "native_build", LuaDirPath) :
            \E d2 \in MakeEffect(disk, st, "native", platform) :
             Spawn("native_build", NativeMakeArgs(hostOS, platform), LuaDirPath,
                   "check_glue", st, d2)
    /\ UNCHANGED <<hostOS, env, out, start, prev>>

\* Line 115.
CheckGlue ==
    /\ pc = "check_glue"
    /\ pc' = IF GlueCached(disk) THEN "target_clean" ELSE "compile_glue"
    /\ UNCHANGED <<hostOS, env, disk, cmds, out, result, start, prev>>

\* Lines 117-121.
CompileGlue ==
    /\ pc = "compile_glue"
    /\ \E st \in PossibleStatuses(disk, "compile_glue", NoCwd) :
       \E d2 \in GccEffect(disk, st) :
        Spawn("compile_glue",
              <<S("gcc"), S("-I"), IncludePath, S("src/glue/glue.c"), S("-o"),
                GlueBinPath>>,
              NoCwd, "run_glue", st, d2)
    /\ UNCHANGED <<hostOS, env, out, start, prev>>

\* Line 123.
RunGlue ==
    /\ pc = "run_glue"
    /\ \E st \in PossibleStatuses(disk, "run_glue", NoCwd) :
       \E d2 \in GlueEffect(disk, st) :
        Spawn("run_glue", <<GlueBinPath, GlueMarkerPath>>, NoCwd,
              "target_clean", st, d2)
    /\ UNCHANGED <<hostOS, env, out, start, prev>>

\* Line 127.
TargetClean ==
    /\ pc = "target_clean"
    /\ \E st \in PossibleStatuses(disk, "target_clean", LuaDirPath) :
       \E d2 \in MakeCleanEffect(disk, st) :
        Spawn("target_clean", <<S("make"), S("clean")>>, LuaDirPath,
              "target_build", st, d2)
    /\ UNCHANGED <<hostOS, env, out, start, prev>>

\* Line 129 and build_lua_target.
BuildLuaTarget ==
    /\ pc = "target_build"
    /\ LET cc == CcName(env)
           target == TargetOs(env)
           platform == TargetPlatform(target.val)
       IN
       IF ~target.set
       THEN /\ pc' = "exited"
            /\ result' = Panic("UnsupportedPlatform", S("Unknown target OS"))
            /\ UNCHANGED <<disk, cmds>>
       ELSE IF platform = NoPlatform
       THEN /\ pc' = "exited"
            /\ result' = Panic("UnsupportedPlatform", S("Unsupported target OS"))
            /\ UNCHANGED <<disk, cmds>>
       ELSE \E st \in PossibleStatuses(disk, "target_build", LuaDirPath) :
            \E d2 \in MakeEffect(disk, st, "target", platform) :
             Spawn("target_build", TargetMakeArgs(platform, cc), LuaDirPath,
                   "emit", st, d2)
    /\ UNCHANGED <<hostOS, env, out, start, prev>>

\* Lines 132-135.
\* Variant: the two println! in the other order.
LinkDirectivesSwapped ==
    <<S("cargo:rustc-link-search=native=") \o OutDir \o S("/lua-5.3.0/src"),
      S("cargo:rustc-link-lib=static=lua")>>
LinkDirectives ==
    <<S("cargo:rustc-link-lib=static=lua"),
      S("cargo:rustc-link-search=native=") \o OutDir \o S("/lua-5.3.0/src")>>

EmitLinkMetadata ==
    /\ pc = "emit"
    /\ out' = out \o LinkDirectives
    /\ pc' = "main"
    /\ UNCHANGED <<hostOS, env, disk, cmds, result, start, prev>>

\* main: an Err of prebuild becomes a panic, Ok a normal exit.
Main ==
    /\ pc = "main"
    /\ pc' = "exited"
    /\ result' = IF result.kind = "none"
                 THEN [result EXCEPT !.exit = "success"]
                 ELSE Panic(result.kind, S("Error: ") \o result.msg)
    /\ UNCHANGED <<hostOS, env, disk, cmds, out, start, prev>>

(* The build system runs the script again on the same output directory,    *)
(* possibly for another TARGET and CC.                                     *)
OkStages(cs) ==
    {cs[i].stage : i \in {j \in 1..Len(cs) : Succeeded(cs[j].st)}}
FailedStage(cs) ==
    IF cs # <<>> /\ ~Succeeded(cs[Len(cs)].st) THEN cs[Len(cs)].stage ELSE "none"

NextRun ==
    /\ pc = "exited"
    /\ env' \in Envs
    /\ disk' = [disk EXCEPT !.lib = IF disk.lib.by = "none" THEN NoLib
                                     ELSE [disk.lib EXCEPT !.age = "earlier"]]
    /\ prev' = [exit |-> result.exit, okStages |-> OkStages(cmds),
                failedStage |-> FailedStage(cmds)]
    /\ pc' = "start"
    /\ cmds' = <<>>
    /\ out' = <<>>
    /\ result' = Running
    /\ start' = disk'
    /\ UNCHANGED hostOS

Next ==
    \/ CheckNativeLib
    \/ CreateDir
    \/ Fetch
    \/ Extract
    \/ NativeClean
    \/ BuildLuaNative
    \/ CheckGlue
    \/ CompileGlue
    \/ RunGlue
    \/ TargetClean
    \/ BuildLuaTarget
    \/ EmitLinkMetadata
    \/ Main
    \/ NextRun

Spec == Init /\ [][Next]_vars

\* A step of the running script: the process is sequential and blocks on
\* each command, so once every command exits it keeps taking steps.
RunStep ==
    \/ CheckNativeLib \/ CreateDir \/ Fetch \/ Extract \/ NativeClean
    \/ BuildLuaNative \/ CheckGlue \/ CompileGlue \/ RunGlue \/ TargetClean
    \/ BuildLuaTarget \/ EmitLinkMetadata \/ Main

FairSpec == Spec /\ WF_vars(RunStep)

\* Runs that begin on an empty output directory, changed by nothing but
\* the script.
InitCold == Init /\ disk = EmptyDisk

SpecCold == InitCold /\ [][Next]_vars

TypeOK ==
    /\ hostOS \in HostOSes
    /\ env \in Envs
    /\ pc \in {"start", "mkdir", "fetch", "extract", "native_clean",
               "native_build", "check_glue", "compile_glue", "run_glue",
               "target_clean", "target_build", "emit", "main", "exited"}
    /\ result.exit \in {"none", "success", "panic"}
    /\ Len(cmds) <= 8

----------------------------------------------------------------------------
(* Vocabulary of the properties *)

HasLib(d) == d.lib.by # "none"
HasGlue(d) == d.glueRs

StageSeq(cs) == [i \in 1..Len(cs) |-> cs[i].stage]
StagesOf(cs) == {cs[i].stage : i \in 1..Len(cs)}
Texts(cs) == [i \in 1..Len(cs) |-> Join(cs[i].argv)]
AllSucceeded(cs) == \A i \in 1..Len(cs) : Succeeded(cs[i].st)
IsPrefix(a, b) == Len(a) <= Len(b) /\ a = SubSeq(b, 1, Len(a))

CachedStages ==
    {"fetch", "extract", "native_clean", "native_build", "compile_glue",
     "run_glue"}

IsDirective(line) == line # <<>> /\ line[1] \in
    {"cargo:rustc-link-lib=static=lua", "cargo:rustc-link-search=native="}
Directives(lines) == SelectSeq(lines, IsDirective)
LinkLibLine == <<"cargo:rustc-link-lib=static=lua">>
LinkSearchLine ==
    <<"cargo:rustc-link-search=native=", "OUT_DIR", "/lua-5.3.0/src">>

\* The OS segment of a TARGET string read off the positions of its dashes.
DashAt(t) == {i \in 1..Len(t) : t[i] = "-"}
Dash(t, n) == CHOOSE i \in DashAt(t) : Cardinality({j \in DashAt(t) : j < i}) = n - 1
HasThird(tv) == tv.set /\ Cardinality(DashAt(tv.val)) >= 2
ThirdSegment(tv) ==
    LET t == tv.val
        from == Dash(t, 2) + 1
        to == IF Cardinality(DashAt(t)) >= 3 THEN Dash(t, 3) - 1 ELSE Len(t)
    IN SubSeq(t, from, to)
TagOf(tv) ==
    IF ~HasThird(tv) THEN "none"
    ELSE LET os == ThirdSegment(tv) IN
         IF os = <<"windows">> THEN "mingw"
         ELSE IF os = <<"darwin">> THEN "macosx"
         ELSE IF os = <<"linux">> THEN "linux"
         ELSE IF os = <<"freebsd">> THEN "freebsd"
         ELSE IF os = <<"dragonfly">> THEN "bsd"
         ELSE "none"
Supported(e) == TagOf(e.TARGET) # "none"

MakeCleanText == <<"make", " ", "clean">>

----------------------------------------------------------------------------
(* C1: a run that starts with liblua.a and glue.rs present spawns no fetch, *)
(* tar, native make, gcc or glue helper; when none of its commands fails   *)
(* (and TARGET names a platform) it spawns exactly `make clean` and `make  *)
(* <target platform> ...` in lua-5.3.0, prints both link directives and    *)
(* exits normally, leaving both markers in place for the run after it.     *)
C1_WarmRunOnlyRebuildsTarget ==
    (env.OUT_DIR /\ HasLib(start) /\ HasGlue(start)) =>
        /\ StagesOf(cmds) \cap CachedStages = {}
        /\ (pc = "exited" /\ AllSucceeded(cmds) /\ Supported(env)) =>
            /\ Len(cmds) = 2
            /\ Texts(cmds)[1] = MakeCleanText
            /\ SubSeq(Texts(cmds)[2], 1, 3) = <<"make", " ", TagOf(env.TARGET)>>
            /\ cmds[1].cwd = LuaDirPath /\ cmds[2].cwd = LuaDirPath
            /\ Directives(out) = <<LinkLibLine, LinkSearchLine>>
            /\ result.exit = "success"
            /\ HasLib(disk) /\ HasGlue(disk)

C1_Witness ==
    /\ pc = "exited" /\ result.exit = "success"
    /\ HasLib(start) /\ HasGlue(start)
    /\ prev.exit = "success" /\ prev.okStages = {"target_clean", "target_build"}
    /\ Len(cmds) = 2

(* C2: on a linux host with TARGET x86_64-unknown-linux-gnu, an empty      *)
(* output directory and no failure, the run spawns wget, tar, make clean,  *)
(* make linux MYCFLAGS=-fPIC, gcc, the glue helper, make clean, make linux *)
(* MYCFLAGS=-fPIC, in this order, then prints link-lib and link-search.    *)
C2_ColdLinuxRun ==
    (/\ hostOS = "linux" /\ env.OUT_DIR /\ env.TARGET = Val(T_linux_gnu)
     /\ start = EmptyDisk /\ pc = "exited" /\ AllSucceeded(cmds)
     /\ result.kind # "CreateDir") =>
        /\ Texts(cmds) =
            << <<"wget", " ", "http://www.lua.org/ftp/lua-5.3.0.tar.gz">>,
               <<"tar", " ", "xzf", " ", "lua-5.3.0.tar.gz">>,
               <<"make", " ", "clean">>,
               <<"make", " ", "linux", " ", "MYCFLAGS=-fPIC">>,
               <<"gcc", " ", "-I", " ", "OUT_DIR", "/lua-5.3.0/src", " ",
                 "src/glue/glue.c", " ", "-o", " ", "OUT_DIR", "/glue">>,
               <<"OUT_DIR", "/glue", " ", "OUT_DIR", "/glue.rs">>,
               <<"make", " ", "clean">>,
               <<"make", " ", "linux", " ", "MYCFLAGS=-fPIC">> >>
        /\ [i \in 1..Len(cmds) |-> cmds[i].cwd] =
            <<OutDir, OutDir, LuaDirPath, LuaDirPath, NoCwd, NoCwd,
              LuaDirPath, LuaDirPath>>
        /\ Directives(out) = <<LinkLibLine, LinkSearchLine>>
        /\ result.exit = "success"

C2_Witness ==
    /\ hostOS = "linux" /\ env.TARGET = Val(T_linux_gnu) /\ start = EmptyDisk
    /\ pc = "exited" /\ result.exit = "success" /\ Len(cmds) = 8

(* C3: when TARGET names no supported OS (third segment unknown, fewer     *)
(* than three segments, or TARGET unset) the run spawns no external        *)
(* command at all and ends with the unsupported-platform error.            *)
C3_UnsupportedTargetSpawnsNothing ==
    (env.OUT_DIR /\ ~Supported(env)) =>
        /\ cmds = <<>>
        /\ pc = "exited" => result.kind = "UnsupportedPlatform"

(* C4: once a step of a run has failed, the run spawns no further command, *)
(* prints no directive and changes no file, and ends in a panic: a failed  *)
(* command is the last command of its run.                                 *)
Failed == result.kind # "none"

C4_FailStopState ==
    /\ \A i \in 1..Len(cmds) :
          ~Succeeded(cmds[i].st) => (i = Len(cmds) /\ Failed)
    /\ Failed => (pc \in {"main", "exited"} /\ Directives(out) = <<>>)
    /\ (pc = "exited" /\ Failed) => result.exit = "panic"
    /\ (pc = "exited" /\ result.exit = "success") => AllSucceeded(cmds)

C4_FailStopStep ==
    (Failed /\ pc' # "start") =>
        /\ cmds' = cmds /\ out' = out /\ disk' = disk
        /\ Failed' /\ pc' = "exited" /\ result'.exit = "panic"

C4_FailStop == [](C4_FailStopState) /\ [][C4_FailStopStep]_vars

C4_Witness ==
    /\ pc = "exited" /\ result.exit = "panic" /\ result.kind = "Other"
    /\ Len(cmds) = 5 /\ cmds[5].stage = "compile_glue"
    /\ ~Succeeded(cmds[5].st) /\ out # <<>>

(* C5: directives are printed only after this run's target build has       *)
(* succeeded and every stage before it has succeeded or was skipped on a   *)
(* cache hit; a run that exits normally has printed exactly the link-lib   *)
(* line and then the link-search line, a run that fails has printed none.  *)
SkippedOnHit ==
    /\ "native_build" \notin StagesOf(cmds) => HasLib(start)
    /\ "fetch" \notin StagesOf(cmds) => (HasLib(start) \/ start.archive)
    /\ "extract" \notin StagesOf(cmds) => (HasLib(start) \/ start.archive)
    /\ "run_glue" \notin StagesOf(cmds) => HasGlue(start)

C5_LinkMetadata ==
    /\ Directives(out) # <<>> =>
        /\ \E i \in 1..Len(cmds) :
              cmds[i].stage = "target_build" /\ Succeeded(cmds[i].st)
        /\ AllSucceeded(cmds)
        /\ SkippedOnHit
        /\ ~Failed
    /\ (pc = "exited" /\ result.exit = "success") =>
          Directives(out) = <<LinkLibLine, LinkSearchLine>>
    /\ (pc = "exited" /\ result.exit = "panic") => Directives(out) = <<>>
    /\ Directives(out) \in {<<>>, <<LinkLibLine, LinkSearchLine>>}

C5_Witness ==
    /\ pc = "exited" /\ result.exit = "success"
    /\ Directives(out) = <<LinkLibLine, LinkSearchLine>>
    /\ Len(out) = 3 /\ HasGlue(start)

(* C6 as stated: the native group is gated by the liblua.a marker alone.   *)
(* Whatever else OUT_DIR holds, a run that starts without the marker runs  *)
(* Fetch, Extract and BuildNative (make clean, make) in this order, a run  *)
(* that starts with it runs none of them; the glue stages come after the   *)
(* group and before BuildTarget.                                           *)
GlueGroup(d) == IF HasGlue(d) THEN <<>> ELSE <<"compile_glue", "run_glue">>
TargetGroup == <<"target_clean", "target_build">>
PastNativeGroup ==
    pc \in {"check_glue", "compile_glue", "run_glue", "target_clean",
            "target_build", "emit"}

NativeGroupOneGate(d) ==
    IF HasLib(d) THEN <<>>
    ELSE <<"fetch", "extract", "native_clean", "native_build">>

C6_OneGate ==
    env.OUT_DIR =>
        /\ IsPrefix(StageSeq(cmds),
                    NativeGroupOneGate(start) \o GlueGroup(start) \o TargetGroup)
        /\ PastNativeGroup =>
              IsPrefix(NativeGroupOneGate(start), StageSeq(cmds))

(* C6, amended: Fetch and Extract are gated by two checks, the liblua.a    *)
(* marker and the downloaded archive: they run, in this order, exactly     *)
(* when both are absent.  BuildNative is gated by the liblua.a marker      *)
(* alone: it runs whenever the marker is absent, directly after the check  *)
(* when the archive is present (even if the extracted tree is absent).     *)
(* With the marker present none of the three runs.  The glue stages come   *)
(* after the group and before BuildTarget.                                 *)
NativeGroupTwoGates(d) ==
    IF HasLib(d) THEN <<>>
    ELSE IF d.archive THEN <<"native_clean", "native_build">>
    ELSE <<"fetch", "extract", "native_clean", "native_build">>

C6_TwoGates ==
    env.OUT_DIR =>
        /\ IsPrefix(StageSeq(cmds),
                    NativeGroupTwoGates(start) \o GlueGroup(start) \o TargetGroup)
        /\ PastNativeGroup =>
              IsPrefix(NativeGroupTwoGates(start), StageSeq(cmds))

C6_Witness ==
    /\ pc = "check_glue" /\ ~HasLib(start) /\ start.archive
    /\ StageSeq(cmds) = <<"native_clean", "native_build">>
    /\ prev.failedStage = "native_build" /\ "extract" \in prev.okStages

(* C7, for a failure at BuildTarget's build step: every cached stage that  *)
(* had completed before the failure (Fetch, Extract, BuildNative, glue     *)
(* generation) still has its artifact when the next run starts, and the    *)
(* next run does not execute that stage again.                             *)
KeptBy(stage, d) ==
    CASE stage = "fetch"        -> d.archive
      [] stage = "extract"      -> d.tree
      [] stage = "native_build" -> HasLib(d)
      [] stage = "run_glue"     -> HasGlue(d)
      [] OTHER                  -> TRUE

C7_CompletedWorkSurvives ==
    (prev.exit = "panic" /\ prev.failedStage = "target_build" /\ env.OUT_DIR) =>
        \A stage \in prev.okStages \cap
                {"fetch", "extract", "native_build", "run_glue"} :
            KeptBy(stage, start) /\ stage \notin StagesOf(cmds)

(* C8: every build invocation, native or target, whose make platform is    *)
(* linux, freebsd or bsd carries MYCFLAGS=-fPIC.                           *)
IsBuild(c) == c.stage \in {"native_build", "target_build"}
HasArg(c, word) == \E k \in 1..Len(c.argv) : c.argv[k] = <<word>>

C8_PicAtBothCallSites ==
    \A i \in 1..Len(cmds) :
        (IsBuild(cmds[i]) /\ cmds[i].argv[2] \in {<<"linux">>, <<"freebsd">>, <<"bsd">>})
            => HasArg(cmds[i], "MYCFLAGS=-fPIC")

(* C9 as stated: every build invocation, native or target, whose make      *)
(* platform is mingw or macosx is `make <platform> CC=<name>`, <name> the  *)
(* value of CC or gcc when CC is unset, without MYCFLAGS=-fPIC.            *)
CcOrGcc == IF env.CC.set THEN env.CC.val ELSE <<"gcc">>
ForwardsCc(c) ==
    /\ c.argv = << <<"make">>, c.argv[2], <<"CC=">> \o CcOrGcc >>
    /\ ~HasArg(c, "MYCFLAGS=-fPIC")

C9_CcAtBothCallSites ==
    \A i \in 1..Len(cmds) :
        (IsBuild(cmds[i]) /\ cmds[i].argv[2] \in {<<"mingw">>, <<"macosx">>})
            => ForwardsCc(cmds[i])

(* C9, amended: the target build for mingw or macosx is `make <platform>   *)
(* CC=<name>`, <name> the value of CC or gcc when CC is unset, without     *)
(* MYCFLAGS=-fPIC (TARGET x86_64-pc-windows-gnu with CC                    *)
(* x86_64-w64-mingw32-gcc gives `make mingw CC=x86_64-w64-mingw32-gcc`).   *)
(* The host-native build on a Windows or macOS host is `make mingw` or     *)
(* `make macosx` alone: it forwards no compiler and passes no             *)
(* MYCFLAGS=-fPIC.                                                         *)
C9_CcAtTargetOnly ==
    \A i \in 1..Len(cmds) :
        /\ (cmds[i].stage = "target_build"
            /\ cmds[i].argv[2] \in {<<"mingw">>, <<"macosx">>})
              => ForwardsCc(cmds[i])
        /\ (cmds[i].stage = "target_build" /\ env.TARGET = Val(T_windows)
            /\ env.CC = Val(CC_mingw))
              => Join(cmds[i].argv) =
                    <<"make", " ", "mingw", " ", "CC=", "x86_64-w64-mingw32-gcc">>
        /\ (cmds[i].stage = "native_build" /\ hostOS \in {"windows", "macos"})
              => /\ cmds[i].argv =
                      << <<"make">>, <<IF hostOS = "windows" THEN "mingw" ELSE "macosx">> >>

C9_Witness ==
    /\ hostOS = "windows" /\ Len(cmds) = 8 /\ pc = "exited"
    /\ result.exit = "success"
    /\ Join(cmds[4].argv) = <<"make", " ", "mingw">>
    /\ Join(cmds[8].argv) =
          <<"make", " ", "mingw", " ", "CC=", "x86_64-w64-mingw32-gcc">>

(* C10: the platform of the target build is the tag of the third           *)
(* dash-separated segment of TARGET (windows -> mingw, darwin -> macosx,   *)
(* linux -> linux, freebsd -> freebsd, dragonfly -> bsd), later segments   *)
(* being ignored; with any other third segment, fewer than three segments  *)
(* or no TARGET, no target make is spawned and the run ends with the       *)
(* unsupported-platform error once it reaches the target build.            *)
ReachedTargetBuild ==
    \E i \in 1..Len(cmds) :
        cmds[i].stage = "target_clean" /\ Succeeded(cmds[i].st)

C10_TargetResolution ==
    /\ \A i \in 1..Len(cmds) :
          cmds[i].stage = "target_build" =>
              /\ Supported(env)
              /\ cmds[i].argv[1] = <<"make">>
              /\ cmds[i].argv[2] = <<TagOf(env.TARGET)>>
    /\ (pc = "exited" /\ ReachedTargetBuild /\ ~Supported(env)) =>
          /\ result.exit = "panic" /\ result.kind = "UnsupportedPlatform"
          /\ "target_build" \notin StagesOf(cmds)
          /\ Directives(out) = <<>>
    /\ (pc = "exited" /\ ReachedTargetBuild /\ Supported(env)) =>
          "target_build" \in StagesOf(cmds)

C10_Witness ==
    /\ pc = "exited" /\ ReachedTargetBuild /\ env.TARGET = Val(T_two)
    /\ result.kind = "UnsupportedPlatform"

(* C11: run_command returns Ok exactly when the child exited with status   *)
(* zero; the Err of a child that exited non-zero carries the invocation    *)
(* text (program and all arguments) and the exit status: the returned      *)
(* error is the error of no other exit status.                             *)
Contains(text, part) ==
    \E k \in 0..(Len(text) - Len(part)) :
        SubSeq(text, k + 1, k + Len(part)) = part

ReturnedErr == [ok |-> FALSE, kind |-> result.kind, msg |-> result.msg]

C11_ErrCarriesTextAndStatus ==
    (pc = "main" /\ cmds # <<>>) =>
        LET c == cmds[Len(cmds)] IN
        /\ ~Failed <=> (c.st.spawned /\ c.st.code = 0)
        /\ (c.st.spawned /\ c.st.code # 0) =>
            /\ Contains(result.msg, Texts(cmds)[Len(cmds)])
            /\ \A other \in ExitCodes \ {0, c.st.code} :
                  RunCommand(c.argv, Exited(other)) # ReturnedErr

C13_LinkedArchiveIsFresh ==
    /\ Directives(out) # <<>> =>
          disk.lib = [by |-> "target", plat |-> TagOf(env.TARGET), age |-> "this"]
    /\ pc \in {"target_build", "emit"} => "target_clean" \in StagesOf(cmds)
    /\ pc = "emit" =>
          /\ cmds[Len(cmds)].stage = "target_build"
          /\ cmds[Len(cmds) - 1].stage = "target_clean"
    /\ (pc = "exited" /\ result.exit = "success") =>
          /\ {"target_clean", "target_build"} \subseteq StagesOf(cmds)
          /\ Directives(out) # <<>>

C13_Witness ==
    /\ pc = "exited" /\ result.exit = "success"
    /\ start.lib.by = "target" /\ start.lib.plat = "linux"
    /\ disk.lib = [by |-> "target", plat |-> "mingw", age |-> "this"]
    /\ prev.exit = "success"

(* C14: the native build of a windows, macos, linux, freebsd, dragonfly     *)
(* host is `make mingw`, `make macosx`, `make linux`, `make freebsd`,      *)
(* `make bsd` respectively, the tag the target path gives for the same OS  *)
(* (windows, darwin, linux, freebsd, dragonfly); on any other host the     *)
(* native build ends with the unsupported-platform error and spawns no     *)
(* build command.                                                          *)
HostTag(host) ==
    IF host = "windows" THEN "mingw"
    ELSE IF host = "macos" THEN "macosx"
    ELSE IF host = "linux" THEN "linux"
    ELSE IF host = "freebsd" THEN "freebsd"
    ELSE IF host = "dragonfly" THEN "bsd"
    ELSE "none"
TripleOs(host) == IF host = "macos" THEN "darwin" ELSE host
TripleOf(host) == Val(<<"x86_64", "-", "unknown", "-", TripleOs(host)>>)

ReachedNativeBuild ==
    \E i \in 1..Len(cmds) :
        cmds[i].stage = "native_clean" /\ Succeeded(cmds[i].st)

C14_HostResolution ==
    /\ \A i \in 1..Len(cmds) :
          cmds[i].stage = "native_build" =>
              /\ HostTag(hostOS) # "none"
              /\ cmds[i].argv[1] = <<"make">>
              /\ cmds[i].argv[2] = <<HostTag(hostOS)>>
              /\ TargetPlatform(TargetOs([env EXCEPT !.TARGET = TripleOf(hostOS)]).val)
                    = HostTag(hostOS)
    /\ (HostTag(hostOS) = "none" /\ ReachedNativeBuild
        /\ pc \notin {"native_build"}) =>
          /\ pc = "exited" /\ result.exit = "panic"
          /\ result.kind = "UnsupportedPlatform"
          /\ ~\E i \in 1..Len(cmds) : IsBuild(cmds[i])
    /\ (HostTag(hostOS) # "none" /\ ReachedNativeBuild
        /\ pc \notin {"native_build"}) =>
          "native_build" \in StagesOf(cmds)

C14_Witness ==
    /\ hostOS = "netbsd" /\ pc = "exited" /\ ReachedNativeBuild
    /\ result.kind = "UnsupportedPlatform"
    /\ prev.okStages = {"native_clean"} /\ prev.exit = "panic"

(* C15: every build command, native or target, directly follows a `make    *)
(* clean` of the same run that succeeded in the same directory             *)
(* OUT_DIR/lua-5.3.0; after a failed clean no build is spawned.            *)
C15_CleanBeforeBuild ==
    /\ \A i \in 1..Len(cmds) :
          IsBuild(cmds[i]) =>
              /\ i > 1
              /\ Join(cmds[i - 1].argv) = MakeCleanText
              /\ Succeeded(cmds[i - 1].st)
              /\ cmds[i - 1].cwd = <<"OUT_DIR", "/lua-5.3.0">>
              /\ cmds[i].cwd = cmds[i - 1].cwd
              /\ cmds[i - 1].stage =
                    (IF cmds[i].stage = "native_build" THEN "native_clean"
                     ELSE "target_clean")
    /\ \A i \in 1..Len(cmds) :
          (Join(cmds[i].argv) = MakeCleanText /\ ~Succeeded(cmds[i].st)) =>
              ~\E j \in (i + 1)..Len(cmds) : TRUE

C15_Witness ==
    /\ Len(cmds) = 8 /\ IsBuild(cmds[4]) /\ IsBuild(cmds[8])
    /\ cmds[3].stage = "native_clean" /\ cmds[7].stage = "target_clean"
    /\ ~Succeeded(cmds[8].st)

(* C16: every run terminates, in a normal exit with both directives        *)
(* printed or in a panic, after at most 8 external commands; its position  *)
(* only moves forward and no stage is executed twice.                      *)
Rank(p) ==
    CASE p = "start" -> 0         [] p = "mkdir" -> 1
      [] p = "fetch" -> 2         [] p = "extract" -> 3
      [] p = "native_clean" -> 4  [] p = "native_build" -> 5
      [] p = "check_glue" -> 6    [] p = "compile_glue" -> 7
      [] p = "run_glue" -> 8      [] p = "target_clean" -> 9
      [] p = "target_build" -> 10 [] p = "emit" -> 11
      [] p = "main" -> 12         [] p = "exited" -> 13

C16_Bounded ==
    /\ Len(cmds) <= 8
    /\ \A i, j \in 1..Len(cmds) : cmds[i].stage = cmds[j].stage => i = j
    /\ \A i, j \in 1..Len(cmds) :
          i < j => Rank(cmds[i].stage) < Rank(cmds[j].stage)
    /\ pc = "exited" =>
          \/ result.exit = "success"
             /\ Directives(out) = <<LinkLibLine, LinkSearchLine>>
          \/ result.exit = "panic"

C16_Forward == pc # "exited" => Rank(pc') > Rank(pc)

C16_Terminates ==
    /\ [](C16_Bounded)
    /\ [][C16_Forward]_vars
    /\ [](pc = "start" => <>(pc = "exited"))

C16_Witness ==
    /\ pc = "exited" /\ Len(cmds) = 8 /\ result.exit = "success"

(* C17: a run that exits normally, from whatever state of OUT_DIR, leaves  *)
(* liblua.a and glue.rs present, and the run directly after it spawns no   *)
(* fetch, tar, native make clean, native make, gcc or glue helper.         *)
C17_SuccessLeavesWarmCache ==
    /\ (pc = "exited" /\ result.exit = "success") =>
          (HasLib(disk) /\ HasGlue(disk))
    /\ (prev.exit = "success" /\ env.OUT_DIR) =>
          /\ HasLib(start) /\ HasGlue(start)
          /\ \A i \in 1..Len(cmds) :
                cmds[i].stage \in {"target_clean", "target_build"}
          /\ pc \notin {"mkdir", "fetch", "extract", "native_clean",
                        "native_build", "compile_glue", "run_glue"}

C17_Witness ==
    /\ prev.exit = "success"
    /\ {"fetch", "extract", "native_build", "run_glue"} \subseteq prev.okStages
    /\ pc = "exited" /\ result.exit = "success" /\ Len(cmds) = 2

(* C18, for the run after a run whose tar failed, in runs that began on an *)
(* empty output directory changed only by the script: the native `make     *)
(* clean` and native make are spawned only when the extracted tree         *)
(* OUT_DIR/lua-5.3.0 exists, and the run spawns tar again before them.     *)
C18_NativeBuildHasTree ==
    prev.failedStage = "extract" =>
        /\ \A i \in 1..Len(cmds) :
              cmds[i].stage \in {"native_clean", "native_build"} => disk.tree
        /\ "native_clean" \in StagesOf(cmds) => "extract" \in StagesOf(cmds)

(* C19, for the run after a run that exited normally: when the run finds   *)
(* liblua.a present at its start, the file was written by the native build *)
(* and not by the target build of the earlier run.                         *)
C19_CacheHitIsHostBuilt ==
    (env.OUT_DIR /\ HasLib(start) /\ prev.exit = "success") =>
        start.lib.by = "native"

(* C20: up to and including BuildTarget's `make clean`, the commands of a  *)
(* run are a function of the host, the state of OUT_DIR at its start and   *)
(* the outcomes of its commands: the next stage is read off the start      *)
(* state, and the text and directory of every command but the target make  *)
(* off the host and the stage.  Neither depends on TARGET or CC; the glue  *)
(* helper is always compiled with gcc.                                     *)
StagePlan(d) == NativeGroupTwoGates(d) \o GlueGroup(d) \o TargetGroup

HostFetchText(host) ==
    IF host \in {"freebsd", "dragonfly"}
    THEN <<"fetch", " ", "http://www.lua.org/ftp/lua-5.3.0.tar.gz">>
    ELSE IF host = "macos"
    THEN <<"curl", " ", "-O", " ", "http://www.lua.org/ftp/lua-5.3.0.tar.gz">>
    ELSE <<"wget", " ", "http://www.lua.org/ftp/lua-5.3.0.tar.gz">>

HostNativeText(host) ==
    IF host \in {"linux", "freebsd"}
    THEN <<"make", " ", HostTag(host), " ", "MYCFLAGS=-fPIC">>
    ELSE <<"make", " ", HostTag(host)>>

TextOfStage(host, stage) ==
    CASE stage = "fetch"        -> HostFetchText(host)
      [] stage = "extract"      -> <<"tar", " ", "xzf", " ", "lua-5.3.0.tar.gz">>
      [] stage = "native_clean" -> MakeCleanText
      [] stage = "native_build" -> HostNativeText(host)
      [] stage = "compile_glue" ->
            <<"gcc", " ", "-I", " ", "OUT_DIR", "/lua-5.3.0/src", " ",
              "src/glue/glue.c", " ", "-o", " ", "OUT_DIR", "/glue">>
      [] stage = "run_glue"     ->
            <<"OUT_DIR", "/glue", " ", "OUT_DIR", "/glue.rs">>
      [] stage = "target_clean" -> MakeCleanText

DirOfStage(stage) ==
    IF stage \in {"fetch", "extract"} THEN <<"OUT_DIR">>
    ELSE IF stage \in {"compile_glue", "run_glue"} THEN <<>>
    ELSE <<"OUT_DIR", "/lua-5.3.0">>

CommandStages ==
    {"fetch", "extract", "native_clean", "native_build", "compile_glue",
     "run_glue", "target_clean", "target_build"}

C20_PrefixIndependentOfTarget ==
    env.OUT_DIR =>
        /\ \A i \in 1..Len(cmds) :
              /\ cmds[i].stage = StagePlan(start)[i]
              /\ cmds[i].stage # "target_build" =>
                    /\ Join(cmds[i].argv) = TextOfStage(hostOS, cmds[i].stage)
                    /\ cmds[i].cwd = DirOfStage(cmds[i].stage)
        /\ pc \in CommandStages =>
              /\ AllSucceeded(cmds)
              /\ pc = StagePlan(start)[Len(cmds) + 1]

C20_Witness ==
    /\ pc = "target_build" /\ Len(cmds) = 7 /\ hostOS = "macos"
    /\ env.TARGET = Val(T_windows) /\ env.CC = Val(CC_mingw)

====
